---- MODULE Spec2Model ----
(***************************************************************************)
(* HitSet (src/osd/HitSet.h, src/osd/HitSet.cc): the hit-tracking          *)
(* container, its three tracking strategies, the Params configuration      *)
(* container and Params::Decoder, with their encodings.                    *)
(*                                                                         *)
(* The versioned envelope written by ENCODE_START / ENCODE_FINISH is a     *)
(* framing primitive outside these files; a buffer is modelled as the      *)
(* sequence of the values written between them.                            *)
(***************************************************************************)
EXTENDS Integers, Sequences, FiniteSets, TLC

\* ------------------------------------------------------------------ bounds
NumKeys == 3        \* object identities 0 .. NumKeys-1
NumHashes == 2      \* distinct values of hobject_t::hash among them
MaxInserts == 3     \* insert calls per constructed HitSet
MaxTag == 5         \* largest type-tag byte a foreign buffer carries

\* ------------------------------------------------------- impl_type_t tags
TYPE_NONE == 0
TYPE_EXPLICIT_HASH == 1
TYPE_EXPLICIT_OBJECT == 2
TYPE_BLOOM == 3

KnownTags == {TYPE_NONE, TYPE_EXPLICIT_HASH, TYPE_EXPLICIT_OBJECT, TYPE_BLOOM}

\* a __u8 as a foreign buffer may carry it (cut at MaxTag)
TagBytes == 0..MaxTag

get_type_name(t) ==
  CASE t = TYPE_NONE -> "none"
    [] t = TYPE_EXPLICIT_HASH -> "explicit_hash"
    [] t = TYPE_EXPLICIT_OBJECT -> "explicit_object"
    [] t = TYPE_BLOOM -> "bloom"
    [] OTHER -> "???"

\* --------------------------------------------------------------- hobject_t
\* An object identity; two identities may share their 32-bit hash.
Keys == 0..(NumKeys - 1)

hash(o) == o % NumHashes

\* ----------------------------------------------------------------- helpers
RECURSIVE SortedSeq(_)
SortedSeq(S) ==
  IF S = {} THEN <<>>
  ELSE LET m == CHOOSE x \in S : \A y \in S : x <= y
       IN  <<m>> \o SortedSeq(S \ {m})

\* every order in which the elements of S can be enumerated
RECURSIVE Orders(_)
Orders(S) ==
  IF S = {} THEN {<<>>}
  ELSE UNION {{<<x>> \o s : s \in Orders(S \ {x})} : x \in S}

Range(s) == {s[i] : i \in 1..Len(s)}

Slice(s, from, n) == [i \in 1..n |-> s[from + i - 1]]

\* ------------------------------------------- double (false_positive only)
\* A double d is kept as [m, e], d = m * 10^e, so that scaling by one
\* million is exact and stays inside TLC's integers.
Dbl(m, e) == IF m = 0 THEN [m |-> 0, e |-> 0] ELSE [m |-> m, e |-> e]

RECURSIVE Pow10(_)
Pow10(k) == IF k <= 0 THEN 1 ELSE 10 * Pow10(k - 1)

\* d * 10^k
Scale(d, k) == Dbl(d.m, d.e + k)

\* whether trunc(d) fits an unsigned 16-bit integer
FitsU16(d) ==
  \/ d.m = 0
  \/ d.e <= 0
     /\ d.m \div Pow10(0 - d.e) <= 65535
  \/ d.e > 0 /\ d.e <= 4
     /\ d.m <= 65535 \div Pow10(d.e)

\* trunc(d), for a d that fits
Trunc(d) ==
  IF d.m = 0 THEN 0
  ELSE IF d.e <= 0 THEN d.m \div Pow10(0 - d.e)
  ELSE d.m * Pow10(d.e)

\* trunc(d) mod 2^16, for a d with e >= -6
RECURSIVE MulMod16(_, _)
MulMod16(x, k) == IF k <= 0 THEN x % 65536 ELSE MulMod16((x * 10) % 65536, k - 1)

WrapU16(d) ==
  IF d.e <= 0 THEN (d.m \div Pow10(0 - d.e)) % 65536
  ELSE MulMod16(d.m % 65536, d.e)

\* static_cast<uint16_t>(d): the truncated value when it fits; otherwise
\* the conversion is undefined, and a build wraps, saturates or gives 0
CastU16(d) == IF FitsU16(d) THEN {Trunc(d)} ELSE {WrapU16(d), 65535, 0}

\* d in millionths, cut at two million (any larger value reads the same)
Micros(d) ==
  IF d.m = 0 THEN 0
  ELSE IF d.e + 6 <= 0 THEN d.m \div Pow10(0 - (d.e + 6))
  ELSE IF d.e + 6 > 7 THEN 2000000
  ELSE IF d.m > 2000000 \div Pow10(d.e + 6) THEN 2000000
  ELSE d.m * Pow10(d.e + 6)

\* |a - b| is at most one millionth
Close(a, b) ==
  LET x == Micros(a)
      y == Micros(b)
  IN  x - y <= 1 /\ y - x <= 1

\* ------------------------------------------ compressible_bloom_filter
\* common/bloom_filter.hpp is not among the sources: the filter follows the
\* contract the specification gives for it (insert, membership with no
\* false negative, a raw insert counter, a cardinality estimate derived
\* from the bit density, and compression to a percentage of the table).
SaltCount == 2
BitsPerChar == 8

TableBits(target) == BitsPerChar * (target + 1)

bloom_filter(target, fpp, seed) ==
  [bits |-> {}, sizes |-> <<TableBits(target)>>, n |-> 0,
   target |-> target, seed |-> seed]

\* the filter a default-constructed BloomHitSet holds
bloom_default == bloom_filter(0, Dbl(0, 0), 0)

RECURSIVE FoldIndex(_, _)
FoldIndex(x, sizes) ==
  IF sizes = <<>> THEN x ELSE FoldIndex(x % Head(sizes), Tail(sizes))

compute_indices(b, h) ==
  {FoldIndex(h * (2 * i + 1) + b.seed + i, b.sizes) : i \in 1..SaltCount}

bloom_insert(b, h) ==
  [b EXCEPT !.bits = @ \cup compute_indices(b, h), !.n = @ + 1]

bloom_contains(b, h) == compute_indices(b, h) \subseteq b.bits

bloom_element_count(b) == b.n

bloom_size(b) == b.sizes[Len(b.sizes)]

\* density() = set bits / table bits, kept as the pair of the two
bloom_density(b) == [num |-> Cardinality(b.bits), den |-> bloom_size(b)]

bloom_approx_unique_element_count(b) == Cardinality(b.bits) \div SaltCount

\* compress(pc), pc = pcNum / pcDen percent of the current table
bloom_compress(b, pcNum, pcDen) ==
  LET old == bloom_size(b)
      new == (old * pcNum) \div (pcDen * 100)
  IN  IF pcNum <= 0 \/ pcNum >= 100 * pcDen \/ new = 0 \/ new >= old
      THEN b
      ELSE [b EXCEPT !.bits = {x % new : x \in b.bits},
                     !.sizes = Append(@, new)]

bloom_encode(b) ==
  <<b.n, b.target, b.seed, Len(b.sizes)>> \o b.sizes
    \o <<Cardinality(b.bits)>> \o SortedSeq(b.bits)

bloom_decode(p) ==
  LET ls == p[4]
      nb == p[5 + ls]
  IN  [bits |-> Range(Slice(p, 6 + ls, nb)), sizes |-> Slice(p, 5, ls),
       n |-> p[1], target |-> p[2], seed |-> p[3]]

\* ---------------------------------------------------- tracking strategies
\* A HitSet::Impl is [impl, count, hits, bloom]: impl is get_type() of the
\* concrete class (TYPE_NONE stands for a NULL impl pointer), count and hits
\* are the explicit sets' members, bloom is BloomHitSet::bloom.
Impl(t, count, hits, bloom) ==
  [impl |-> t, count |-> count, hits |-> hits, bloom |-> bloom]

NoImpl == Impl(TYPE_NONE, 0, {}, bloom_default)

ExplicitHashHitSet == Impl(TYPE_EXPLICIT_HASH, 0, {}, bloom_default)

ExplicitObjectHitSet == Impl(TYPE_EXPLICIT_OBJECT, 0, {}, bloom_default)

BloomHitSet == Impl(TYPE_BLOOM, 0, {}, bloom_default)

BloomHitSet_from_Params(p) ==
  Impl(TYPE_BLOOM, 0, {}, bloom_filter(p.target_size, p.false_positive, p.seed))

\* faulty variants of the strategies, used to test the properties below
ExplicitHashHitSet_insert_byIdentity(s, o) ==
  [s EXCEPT !.hits = @ \cup {o}, !.count = @ + 1]

ExplicitObjectHitSet_insert_noCount(s, o) == [s EXCEPT !.hits = @ \cup {o}]

BloomHitSet_insert_byIdentity(s, o) == [s EXCEPT !.bloom = bloom_insert(@, o + 1)]

ExplicitHitSet_decode_noCount(s, p) ==
  [s EXCEPT !.hits = Range(Slice(p, 3, p[2]))]

ExplicitHashHitSet_insert(s, o) ==
  [s EXCEPT !.hits = @ \cup {hash(o)}, !.count = @ + 1]

ExplicitObjectHitSet_insert(s, o) ==
  [s EXCEPT !.hits = @ \cup {o}, !.count = @ + 1]

BloomHitSet_insert(s, o) == [s EXCEPT !.bloom = bloom_insert(@, hash(o))]

ExplicitHashHitSet_contains(s, o) == hash(o) \in s.hits

ExplicitObjectHitSet_contains(s, o) == o \in s.hits

BloomHitSet_contains(s, o) == bloom_contains(s.bloom, hash(o))

BloomHitSet_optimize(s) ==
  LET d == bloom_density(s.bloom)
  IN  IF 200 * d.num < 100 * d.den
      THEN [s EXCEPT !.bloom = bloom_compress(@, 200 * d.num, d.den)]
      ELSE s

ExplicitHitSet_encode(s) ==
  {<<s.count, Cardinality(s.hits)>> \o ord : ord \in Orders(s.hits)}

ExplicitHitSet_decode(s, p) ==
  [s EXCEPT !.count = p[1], !.hits = Range(Slice(p, 3, p[2]))]

BloomHitSet_encode(s) == {bloom_encode(s.bloom)}

BloomHitSet_decode(s, p) == [s EXCEPT !.bloom = bloom_decode(p)]

\* ------------------------------------------------------------------ HitSet
\* the virtual calls through HitSet::impl
HitSet_insert(s, o) ==
  CASE s.impl = TYPE_EXPLICIT_HASH -> ExplicitHashHitSet_insert(s, o)
    [] s.impl = TYPE_EXPLICIT_OBJECT -> ExplicitObjectHitSet_insert(s, o)
    [] s.impl = TYPE_BLOOM -> BloomHitSet_insert(s, o)

HitSet_contains(s, o) ==
  CASE s.impl = TYPE_EXPLICIT_HASH -> ExplicitHashHitSet_contains(s, o)
    [] s.impl = TYPE_EXPLICIT_OBJECT -> ExplicitObjectHitSet_contains(s, o)
    [] s.impl = TYPE_BLOOM -> BloomHitSet_contains(s, o)

insert_count(s) ==
  IF s.impl = TYPE_BLOOM THEN bloom_element_count(s.bloom) ELSE s.count

approx_unique_insert_count(s) ==
  IF s.impl = TYPE_BLOOM THEN bloom_approx_unique_element_count(s.bloom)
  ELSE Cardinality(s.hits)

HitSet_optimize(s) == IF s.impl = TYPE_BLOOM THEN BloomHitSet_optimize(s) ELSE s

\* impl-> on the boost::scoped_ptr HitSet::impl: a null impl fails
\* BOOST_ASSERT(px != 0); where that assert is compiled out the virtual call
\* reads the vtable pointer at address 0 and the process is killed by the
\* signal. Either way the process ends before the strategy is touched.
impl_arrow(s) == IF s.impl = TYPE_NONE THEN {"fatal"} ELSE {"ok"}

\* faulty variant: insert on an empty HitSet creates a strategy on demand
HitSet_call_insert_lazy(s, o) ==
  {[res |-> "ok",
    hs |-> HitSet_insert(IF s.impl = TYPE_NONE THEN ExplicitObjectHitSet
                         ELSE s, o)]}

\* HitSet::insert as a call: the outcomes [res, hs] it can have
HitSet_call_insert(s, o) ==
  {[res |-> r, hs |-> IF r = "ok" THEN HitSet_insert(s, o) ELSE s] :
     r \in impl_arrow(s)}

\* HitSet::contains as a call: the outcomes [res, ret] it can have
HitSet_call_contains(s, o) ==
  {[res |-> r, ret |-> IF r = "ok" THEN HitSet_contains(s, o) ELSE FALSE] :
     r \in impl_arrow(s)}

\* HitSet::optimize as a call
HitSet_call_optimize(s) ==
  {[res |-> r, hs |-> IF r = "ok" THEN HitSet_optimize(s) ELSE s] :
     r \in impl_arrow(s)}

HitSet_get_type_name(s) == get_type_name(s.impl)

HitSet_encode(s) ==
  IF s.impl # TYPE_NONE
  THEN {<<s.impl % 256>> \o p :
          p \in IF s.impl = TYPE_BLOOM THEN BloomHitSet_encode(s)
                ELSE ExplicitHitSet_encode(s)}
  ELSE {<<TYPE_NONE>>}

\* faulty variant: an unknown tag asserts, as in the constructor
HitSet_decode_assert(s, bl) ==
  LET type == bl[1]
      p == Tail(bl)
  IN  CASE type = TYPE_EXPLICIT_HASH ->
             [res |-> "ok", hs |-> ExplicitHitSet_decode(ExplicitHashHitSet, p)]
        [] type = TYPE_EXPLICIT_OBJECT ->
             [res |-> "ok", hs |-> ExplicitHitSet_decode(ExplicitObjectHitSet, p)]
        [] type = TYPE_BLOOM ->
             [res |-> "ok", hs |-> BloomHitSet_decode(BloomHitSet, p)]
        [] type = TYPE_NONE -> [res |-> "ok", hs |-> NoImpl]
        [] OTHER -> [res |-> "fatal", hs |-> s]

\* decode into s; res is "ok", or the exception thrown
HitSet_decode(s, bl) ==
  LET type == bl[1]
      p == Tail(bl)
  IN  CASE type = TYPE_EXPLICIT_HASH ->
             [res |-> "ok", hs |-> ExplicitHitSet_decode(ExplicitHashHitSet, p)]
        [] type = TYPE_EXPLICIT_OBJECT ->
             [res |-> "ok", hs |-> ExplicitHitSet_decode(ExplicitObjectHitSet, p)]
        [] type = TYPE_BLOOM ->
             [res |-> "ok", hs |-> BloomHitSet_decode(BloomHitSet, p)]
        [] type = TYPE_NONE -> [res |-> "ok", hs |-> NoImpl]
        [] OTHER -> [res |-> "malformed_input", hs |-> s]

\* ------------------------------------------------------- HitSet::Params
\* A configuration is [type, kind, false_positive, target_size, seed]: type
\* is HitSet::Params::type, kind the tag of the concrete configuration it
\* is or owns (TYPE_NONE: none), the rest BloomHitSet::Params' members.
Cfg(type, kind, fpp, target, seed) ==
  [type |-> type, kind |-> kind, false_positive |-> fpp,
   target_size |-> target, seed |-> seed]

NoneParams == Cfg(TYPE_NONE, TYPE_NONE, Dbl(0, 0), 0, 0)

ExplicitHashParams == Cfg(TYPE_EXPLICIT_HASH, TYPE_EXPLICIT_HASH, Dbl(0, 0), 0, 0)

ExplicitObjectParams ==
  Cfg(TYPE_EXPLICIT_OBJECT, TYPE_EXPLICIT_OBJECT, Dbl(0, 0), 0, 0)

\* BloomHitSet::Params(): the base is default-constructed
BloomParams_default == Cfg(TYPE_NONE, TYPE_BLOOM, Dbl(0, 0), 0, 0)

BloomParams(fpp, t, s) == Cfg(TYPE_BLOOM, TYPE_BLOOM, fpp, t, s)

\* false-positive rates, target sizes and seeds a caller passes
Fpps == {Dbl(0, 0), Dbl(5, -2), Dbl(1, -1)}
Targets == {2}
Seeds == {1}

\* HitSet::HitSet(Params*); "fatal" is the failed assert
HitSet_from_Params(p) ==
  CASE p.type = TYPE_BLOOM -> [res |-> "ok", hs |-> BloomHitSet_from_Params(p)]
    [] p.type = TYPE_EXPLICIT_HASH -> [res |-> "ok", hs |-> ExplicitHashHitSet]
    [] p.type = TYPE_EXPLICIT_OBJECT -> [res |-> "ok", hs |-> ExplicitObjectHitSet]
    [] p.type = TYPE_NONE -> [res |-> "ok", hs |-> NoImpl]
    [] OTHER -> [res |-> "fatal", hs |-> NoImpl]

\* every configuration the public constructors give
PublicParams ==
  {NoneParams, ExplicitHashParams, ExplicitObjectParams, BloomParams_default}
    \cup {BloomParams(f, t, s) : f \in Fpps, t \in Targets, s \in Seeds}

\* HitSet::Params::reset_to_type, on the configuration p
reset_to_type(p, t) ==
  CASE t = TYPE_BLOOM ->
         [res |-> "ok", p |-> Cfg(p.type, TYPE_BLOOM, Dbl(0, 0), 0, 0)]
    [] t = TYPE_EXPLICIT_HASH ->
         [res |-> "ok", p |-> Cfg(p.type, TYPE_EXPLICIT_HASH, Dbl(0, 0), 0, 0)]
    [] t = TYPE_EXPLICIT_OBJECT ->
         [res |-> "ok", p |-> Cfg(p.type, TYPE_EXPLICIT_OBJECT, Dbl(0, 0), 0, 0)]
    [] t = TYPE_NONE ->
         [res |-> "ok", p |-> Cfg(p.type, TYPE_NONE, Dbl(0, 0), 0, 0)]
    [] OTHER -> [res |-> "fatal", p |-> p]

\* HitSet::Params::Params(impl_type_t t)
Params_from_type(t) == reset_to_type(Cfg(t, TYPE_NONE, Dbl(0, 0), 0, 0), t)

\* BloomHitSet::Params::_encode_impl_bits: every buffer a build can write
BloomParams_encode_impl_bits(p) ==
  {<<fpp_micro, p.target_size, p.seed>> :
     fpp_micro \in CastU16(Scale(p.false_positive, 6))}

\* BloomHitSet::Params::_decode_impl_bits
BloomParams_decode_impl_bits(p, bits) ==
  [p EXCEPT !.false_positive = Scale(Dbl(bits[1], 0), 6),
            !.target_size = bits[2],
            !.seed = bits[3]]

\* the payload of the concrete configuration p is or owns
impl_encode(p) ==
  IF p.kind = TYPE_BLOOM THEN BloomParams_encode_impl_bits(p) ELSE {<<>>}

impl_decode(p, bits) ==
  IF p.kind = TYPE_BLOOM THEN BloomParams_decode_impl_bits(p, bits) ELSE p

\* HitSet::Params::encode: the buffers it can write, none when it asserts
Params_encode(p) ==
  IF p.kind # TYPE_NONE
  THEN IF p.type # TYPE_NONE
       THEN {<<p.type % 256>> \o bits : bits \in impl_encode(p)}
       ELSE {}
  ELSE {<<p.type % 256>>}

\* HitSet::Params::decode
Params_decode(p, buf) ==
  LET t == buf[1]
      q == [p EXCEPT !.type = t]
  IN  IF t \in KnownTags
      THEN [res |-> "ok", p |-> impl_decode(reset_to_type(q, t).p, Tail(buf))]
      ELSE [res |-> "malformed_input", p |-> q]

\* faulty variant: the view is granted by the concrete configuration
get_as_type_byKind(p, T) == [present |-> T = p.kind, p |-> p]

\* HitSet::Params::get_as_type<T>(), T given by T::Params::type_code:
\* whether a pointer is returned, and p afterwards
get_as_type(p, T) == [present |-> T = p.type, p |-> p]

\* HitSet::Params::operator=, the copy constructor being *this = o on a new
\* object. *params = *o.params assigns through the base class, whose
\* operator= is not virtual and which the concrete configurations do not
\* redefine: the members of the concrete configuration stay as
\* reset_to_type made them.
Params_assign(p, o) ==
  LET r == reset_to_type([p EXCEPT !.type = o.type], o.type)
  IN  [res |-> r.res, p |-> r.p]

\* ------------------------------------------------ HitSet::Params::Decoder
\* A Decoder is [owned, p]: owned is params != NULL, p the configuration
\* params points to.
Decoder(owned, p) == [owned |-> owned, p |-> p]

NoDecoder == Decoder(FALSE, NoneParams)

Decoder_get_type(d) == IF d.owned THEN d.p.type ELSE TYPE_NONE

Decoder_encode(d) == Params_encode(IF d.owned THEN d.p ELSE NoneParams)

\* extract_params: the statement after the return never runs
Decoder_extract_params(d) == [ret |-> d, dec |-> d]

Decoder_reset_params(d, p) == Decoder(TRUE, p)

\* Decoder::decode is declared in HitSet.h and defined in none of the
\* sources; it follows the specification: discard what is owned, read the
\* tag, construct the matching default configuration and decode its
\* payload; an unknown tag leaves the decoder owning nothing.
Decoder_decode(d, buf) ==
  LET t == buf[1]
      c == CASE t = TYPE_BLOOM -> BloomParams_default
             [] t = TYPE_EXPLICIT_HASH -> ExplicitHashParams
             [] t = TYPE_EXPLICIT_OBJECT -> ExplicitObjectParams
             [] OTHER -> NoneParams
  IN  IF t \in KnownTags
      THEN [res |-> "ok", dec |-> Decoder(TRUE, impl_decode(c, Tail(buf)))]
      ELSE [res |-> "malformed_input", dec |-> NoDecoder]

\* ------------------------------------------------------------------- state
VARIABLES
  live,      \* the objects constructed so far, among "hs", "par", "dec"
  hs,        \* the HitSet
  par,       \* the HitSet::Params
  dec,       \* the HitSet::Params::Decoder
  held,      \* the pointer extract_params gave the caller: none, sole
             \* (the caller alone owns it), alias (dec still owns it too),
             \* dangling (dec has deleted it)
  inserted,  \* the keys inserted into hs since it was constructed
  nIns,      \* the number of insert calls on hs since it was constructed
  bl,        \* the HitSet buffer: the last encode's, or a foreign one
  enc,       \* what bl encodes: [own, hs, keys, n]
  pbl,       \* the Params buffer: the last encode's, or a foreign one
  penc,      \* what pbl encodes: [own, p]
  fresh,     \* the HitSet the last decode into a fresh HitSet gave
  view,      \* what the last get_as_type<T>() returned: [T, present]
  cpy,       \* a second HitSet::Params, made by copying par
  res,       \* how the last operation ended: ok, malformed_input, fatal
  op         \* the last operation

vars ==
  <<live, hs, par, dec, held, inserted, nIns, bl, enc, pbl, penc, fresh,
    view, cpy, res, op>>

cpyVars == <<view, cpy>>

hsVars == <<hs, inserted, nIns, bl, enc, fresh>>

parVars == <<par, pbl, penc>>

decVars == <<dec, held>>

NoEnc == [own |-> FALSE, hs |-> NoImpl, keys |-> {}, n |-> 0]

NoPenc == [own |-> FALSE, p |-> NoneParams]

NoView == [T |-> TYPE_NONE, present |-> FALSE]

\* a failed assert ends the process
Running == res # "fatal"

Init ==
  /\ live = {}
  /\ hs = NoImpl
  /\ par = NoneParams
  /\ dec = NoDecoder
  /\ held = "none"
  /\ inserted = {}
  /\ nIns = 0
  /\ bl = <<>>
  /\ enc = NoEnc
  /\ pbl = <<>>
  /\ penc = NoPenc
  /\ fresh = NoImpl
  /\ view = NoView
  /\ cpy = NoneParams
  /\ res = "ok"
  /\ op = "init"

\* ---- the configuration
\* the constructors of the concrete configurations
ParamsNew ==
  \E p \in PublicParams :
    /\ Running
    /\ "par" \notin live
    /\ par' = p
    /\ live' = live \cup {"par"}
    /\ res' = "ok"
    /\ op' = "Params"
    /\ UNCHANGED <<cpyVars, hsVars, decVars, pbl, penc>>

\* HitSet::Params::Params(impl_type_t t)
ParamsFromType ==
  \E t \in TagBytes :
    LET r == Params_from_type(t)
    IN  /\ Running
        /\ "par" \notin live
        /\ par' = r.p
        /\ live' = IF r.res = "ok" THEN live \cup {"par"} ELSE live
        /\ res' = r.res
        /\ op' = "Params_from_type"
        /\ UNCHANGED <<cpyVars, hsVars, decVars, pbl, penc>>

\* HitSet::Params::encode into an empty buffer
ParamsEncode ==
  /\ Running
  /\ "par" \in live
  /\ IF Params_encode(par) = {}
     THEN /\ res' = "fatal"
          /\ UNCHANGED <<pbl, penc>>
     ELSE /\ res' = "ok"
          /\ pbl' \in Params_encode(par)
          /\ penc' = [own |-> TRUE, p |-> par]
  /\ op' = "Params_encode"
  /\ UNCHANGED <<cpyVars, live, hsVars, decVars, par>>

\* a configuration buffer of a peer whose type tag this version does not know
ParamsReceive ==
  \E t \in TagBytes \ KnownTags :
    /\ Running
    /\ pbl' = <<t>> \o (IF pbl = <<>> THEN <<>> ELSE Tail(pbl))
    /\ penc' = NoPenc
    /\ res' = "ok"
    /\ op' = "Params_receive"
    /\ UNCHANGED <<cpyVars, live, hsVars, decVars, par>>

\* HitSet::Params::decode
ParamsDecode ==
  /\ Running
  /\ "par" \in live
  /\ pbl # <<>>
  /\ LET r == Params_decode(par, pbl)
     IN  /\ par' = r.p
         /\ res' = r.res
  /\ op' = "Params_decode"
  /\ UNCHANGED <<cpyVars, live, hsVars, decVars, pbl, penc>>

\* HitSet::Params::get_as_type<T>() on par
GetAsType ==
  \E T \in KnownTags :
    LET r == get_as_type(par, T)
    IN  /\ Running
        /\ "par" \in live
        /\ view' = [T |-> T, present |-> r.present]
        /\ par' = r.p
        /\ res' = "ok"
        /\ op' = "get_as_type"
        /\ UNCHANGED <<live, hsVars, decVars, pbl, penc, cpy>>

\* HitSet::Params::Params(const Params& o): cpy is made as a copy of par
ParamsCopy ==
  /\ Running
  /\ "par" \in live
  /\ "cpy" \notin live
  /\ LET r == Params_assign(NoneParams, par)
     IN  /\ cpy' = r.p
         /\ res' = r.res
         /\ live' = IF r.res = "ok" THEN live \cup {"cpy"} ELSE live
  /\ op' = "Params_copy"
  /\ UNCHANGED <<hsVars, parVars, decVars, view>>

\* HitSet::Params::operator=: cpy = par
ParamsAssign ==
  /\ Running
  /\ "par" \in live
  /\ "cpy" \in live
  /\ LET r == Params_assign(cpy, par)
     IN  /\ cpy' = r.p
         /\ res' = r.res
  /\ op' = "Params_assign"
  /\ UNCHANGED <<live, hsVars, parVars, decVars, view>>

\* ---- the decoder
\* what deleting the configuration dec owns does to the caller's pointer
AfterDelete == IF dec.owned /\ held = "alias" THEN "dangling" ELSE held

\* Decoder() and Decoder(Params *p)
DecoderNew ==
  \E d \in {NoDecoder} \cup {Decoder(TRUE, p) : p \in PublicParams} :
    /\ Running
    /\ "dec" \notin live
    /\ dec' = d
    /\ live' = live \cup {"dec"}
    /\ res' = "ok"
    /\ op' = "Decoder"
    /\ UNCHANGED <<cpyVars, hsVars, parVars, held>>

\* Decoder::reset_params
DecoderReset ==
  \E p \in PublicParams :
    /\ Running
    /\ "dec" \in live
    /\ dec' = Decoder_reset_params(dec, p)
    /\ held' = AfterDelete
    /\ res' = "ok"
    /\ op' = "reset_params"
    /\ UNCHANGED <<cpyVars, live, hsVars, parVars>>

\* Decoder::extract_params
DecoderExtract ==
  /\ Running
  /\ "dec" \in live
  /\ LET r == Decoder_extract_params(dec)
     IN  /\ dec' = r.dec
         /\ held' = IF r.ret.owned
                    THEN IF r.dec.owned THEN "alias" ELSE "sole"
                    ELSE held
  /\ res' = "ok"
  /\ op' = "extract_params"
  /\ UNCHANGED <<cpyVars, live, hsVars, parVars>>

\* Decoder::encode into an empty buffer
DecoderEncode ==
  /\ Running
  /\ "dec" \in live
  /\ IF Decoder_encode(dec) = {}
     THEN /\ res' = "fatal"
          /\ UNCHANGED <<pbl, penc>>
     ELSE /\ res' = "ok"
          /\ pbl' \in Decoder_encode(dec)
          /\ penc' = [own |-> TRUE, p |-> IF dec.owned THEN dec.p ELSE NoneParams]
  /\ op' = "Decoder_encode"
  /\ UNCHANGED <<cpyVars, live, hsVars, decVars, par>>

\* Decoder::decode
DecoderDecode ==
  /\ Running
  /\ "dec" \in live
  /\ pbl # <<>>
  /\ LET r == Decoder_decode(dec, pbl)
     IN  /\ dec' = r.dec
         /\ res' = r.res
  /\ held' = AfterDelete
  /\ op' = "Decoder_decode"
  /\ UNCHANGED <<cpyVars, live, hsVars, parVars>>

\* Decoder::~Decoder
DecoderDelete ==
  /\ Running
  /\ "dec" \in live
  /\ dec' = NoDecoder
  /\ held' = AfterDelete
  /\ live' = live \ {"dec"}
  /\ res' = "ok"
  /\ op' = "Decoder_delete"
  /\ UNCHANGED <<cpyVars, hsVars, parVars>>

\* ---- the HitSet
\* HitSet::HitSet()
HitSetNew ==
  /\ Running
  /\ "hs" \notin live
  /\ hs' = NoImpl
  /\ inserted' = {}
  /\ nIns' = 0
  /\ live' = live \cup {"hs"}
  /\ res' = "ok"
  /\ op' = "HitSet"
  /\ UNCHANGED <<cpyVars, parVars, decVars, bl, enc, fresh>>

\* HitSet::HitSet(HitSet::Params *params), on par
Construct ==
  /\ Running
  /\ "hs" \notin live
  /\ "par" \in live
  /\ LET r == HitSet_from_Params(par)
     IN  /\ hs' = r.hs
         /\ res' = r.res
         /\ live' = IF r.res = "ok" THEN live \cup {"hs"} ELSE live
  /\ inserted' = {}
  /\ nIns' = 0
  /\ op' = "construct"
  /\ UNCHANGED <<cpyVars, parVars, decVars, bl, enc, fresh>>

\* HitSet::insert
Insert ==
  \E o \in Keys :
    /\ Running
    /\ "hs" \in live
    /\ nIns < MaxInserts
    /\ \E r \in HitSet_call_insert(hs, o) :
         /\ hs' = r.hs
         /\ res' = r.res
         /\ inserted' = IF r.res = "ok" THEN inserted \cup {o} ELSE inserted
         /\ nIns' = IF r.res = "ok" THEN nIns + 1 ELSE nIns
    /\ op' = "insert"
    /\ UNCHANGED <<cpyVars, live, parVars, decVars, bl, enc, fresh>>

\* HitSet::contains
Contains ==
  \E o \in Keys :
    /\ Running
    /\ "hs" \in live
    /\ \E r \in HitSet_call_contains(hs, o) : res' = r.res
    /\ op' = "contains"
    /\ UNCHANGED <<cpyVars, live, parVars, decVars, hsVars>>

\* HitSet::optimize
Optimize ==
  /\ Running
  /\ "hs" \in live
  /\ \E r \in HitSet_call_optimize(hs) :
       /\ hs' = r.hs
       /\ res' = r.res
  /\ op' = "optimize"
  /\ UNCHANGED <<cpyVars, live, parVars, decVars, inserted, nIns, bl, enc,
               fresh>>

\* HitSet::encode into an empty buffer
Encode ==
  \E b \in HitSet_encode(hs) :
    /\ Running
    /\ "hs" \in live
    /\ bl' = b
    /\ enc' = [own |-> TRUE, hs |-> hs, keys |-> inserted, n |-> nIns]
    /\ res' = "ok"
    /\ op' = "encode"
    /\ UNCHANGED <<cpyVars, live, parVars, decVars, hs, inserted, nIns, fresh>>

\* a HitSet buffer of a peer whose type tag this version does not know
Receive ==
  \E t \in TagBytes \ KnownTags :
    /\ Running
    /\ bl' = <<t>> \o (IF bl = <<>> THEN <<>> ELSE Tail(bl))
    /\ enc' = NoEnc
    /\ res' = "ok"
    /\ op' = "receive"
    /\ UNCHANGED <<cpyVars, live, parVars, decVars, hs, inserted, nIns, fresh>>

\* HitSet::decode on hs
Decode ==
  /\ Running
  /\ "hs" \in live
  /\ bl # <<>>
  /\ LET r == HitSet_decode(hs, bl)
     IN  /\ hs' = r.hs
         /\ res' = r.res
         /\ inserted' = IF r.res = "ok" THEN enc.keys ELSE inserted
         /\ nIns' = IF r.res = "ok" THEN enc.n ELSE nIns
  /\ op' = "decode"
  /\ UNCHANGED <<cpyVars, live, parVars, decVars, bl, enc, fresh>>

\* HitSet::decode on a default-constructed HitSet
DecodeFresh ==
  /\ Running
  /\ bl # <<>>
  /\ LET r == HitSet_decode(NoImpl, bl)
     IN  /\ fresh' = r.hs
         /\ res' = r.res
  /\ op' = "decode_fresh"
  /\ UNCHANGED <<cpyVars, live, parVars, decVars, hs, inserted, nIns, bl, enc>>

\* ---- the HitSet and the configuration it is built from
Next ==
  \/ ParamsNew
  \/ ParamsFromType
  \/ HitSetNew
  \/ Construct
  \/ Insert
  \/ Contains
  \/ Optimize
  \/ Encode
  \/ Receive
  \/ Decode
  \/ DecodeFresh

Spec == Init /\ [][Next]_vars

\* ---- the configuration, its buffers and the decoder
NextParams ==
  \/ ParamsNew
  \/ ParamsFromType
  \/ ParamsEncode
  \/ ParamsReceive
  \/ ParamsDecode
  \/ DecoderNew
  \/ DecoderReset
  \/ DecoderExtract
  \/ DecoderEncode
  \/ DecoderDecode
  \/ DecoderDelete

SpecParams == Init /\ [][NextParams]_vars

\* ---- construction and decoding of all three
NextDecode ==
  \/ ParamsNew
  \/ ParamsFromType
  \/ ParamsReceive
  \/ ParamsDecode
  \/ DecoderNew
  \/ DecoderDecode
  \/ HitSetNew
  \/ Construct
  \/ Insert
  \/ Receive
  \/ Decode
  \/ DecodeFresh

SpecDecode == Init /\ [][NextDecode]_vars

\* ---- the configuration, its typed views and its copies
NextCopy ==
  \/ ParamsNew
  \/ ParamsFromType
  \/ ParamsEncode
  \/ ParamsReceive
  \/ ParamsDecode
  \/ GetAsType
  \/ ParamsCopy
  \/ ParamsAssign

SpecCopy == Init /\ [][NextCopy]_vars

\* ------------------------------------------------------------------ claims
Explicit == {TYPE_EXPLICIT_HASH, TYPE_EXPLICIT_OBJECT}

Owns == "hs" \in live /\ hs.impl # TYPE_NONE

\* C1: decoding the buffer encode(x) wrote into a fresh HitSet gives a
\* HitSet with x's type name, x's insert_count(), for the explicit variants
\* x's approx_unique_insert_count(), and containing every key inserted in x.
C1_RoundTrip ==
  (op = "decode_fresh" /\ enc.own) =>
    /\ res = "ok"
    /\ HitSet_get_type_name(fresh) = HitSet_get_type_name(enc.hs)
    /\ enc.hs.impl # TYPE_NONE =>
         /\ insert_count(fresh) = insert_count(enc.hs)
         /\ enc.hs.impl \in Explicit =>
              approx_unique_insert_count(fresh) = approx_unique_insert_count(enc.hs)
         /\ \A k \in enc.keys : HitSet_contains(fresh, k)

C1_Witness ==
  /\ op = "decode_fresh"
  /\ enc.own
  /\ fresh.impl = TYPE_EXPLICIT_HASH
  /\ Cardinality(enc.keys) >= 2
  /\ enc.n > Cardinality(enc.keys)

\* C2 as claimed: after N inserts insert_count() is N, and for both explicit
\* variants approx_unique_insert_count() is the number of distinct keys.
C2_Claimed ==
  Owns =>
    /\ insert_count(hs) = nIns
    /\ hs.impl \in Explicit =>
         approx_unique_insert_count(hs) = Cardinality(inserted)

\* C2 amended: after N inserts insert_count() is N; approx_unique_insert_count()
\* is the number of distinct keys for explicit_object, and the number of
\* distinct hashes of the keys for explicit_hash.
C2_Counts ==
  Owns =>
    /\ insert_count(hs) = nIns
    /\ hs.impl = TYPE_EXPLICIT_OBJECT =>
         approx_unique_insert_count(hs) = Cardinality(inserted)
    /\ hs.impl = TYPE_EXPLICIT_HASH =>
         approx_unique_insert_count(hs) = Cardinality({hash(k) : k \in inserted})

C2_Witness ==
  /\ Owns
  /\ hs.impl = TYPE_EXPLICIT_HASH
  /\ op = "insert"
  /\ nIns = 3
  /\ Cardinality(inserted) = 2
  /\ approx_unique_insert_count(hs) = 1

\* C3: a Bloom HitSet contains every key inserted into it, whatever inserts
\* and optimize() calls came in between.
C3_NoFalseNegative ==
  (Owns /\ hs.impl = TYPE_BLOOM) =>
    \A k \in inserted : HitSet_contains(hs, k)

C3_Witness ==
  /\ Owns
  /\ hs.impl = TYPE_BLOOM
  /\ op = "insert"
  /\ Len(hs.bloom.sizes) > 1
  /\ Cardinality({hash(k) : k \in inserted}) >= 2

C5_Claimed ==
  /\ op = "extract_params" =>
       (~dec.owned /\ Decoder_get_type(dec) = TYPE_NONE)
  /\ held # "dangling"

\* C6: a decode of a buffer whose type tag is unknown ends in malformed_input,
\* never in a failed assert, and constructs nothing: HitSet::decode leaves
\* the strategy as it was, Params::decode leaves the owned configuration as
\* it was, Decoder::decode leaves the decoder owning nothing.
C6_TagClosure ==
  [][/\ (op' = "decode" /\ bl[1] \notin KnownTags) =>
          (res' = "malformed_input" /\ hs' = hs)
     /\ (op' = "decode_fresh" /\ bl[1] \notin KnownTags) =>
          (res' = "malformed_input" /\ fresh' = NoImpl)
     /\ (op' = "Params_decode" /\ pbl[1] \notin KnownTags) =>
          (res' = "malformed_input" /\ par' = [par EXCEPT !.type = par'.type])
     /\ (op' = "Decoder_decode" /\ pbl[1] \notin KnownTags) =>
          (res' = "malformed_input" /\ ~dec'.owned)]_vars

C6_Witness ==
  /\ op = "decode"
  /\ res = "malformed_input"
  /\ hs.impl = TYPE_BLOOM
  /\ nIns >= 2
  /\ par.type \notin KnownTags
  /\ dec.owned

\* C7 as claimed: after a decode that failed on an unknown tag the target
\* owns nothing and reports type none.
C7_Claimed ==
  /\ (op = "Params_decode" /\ res = "malformed_input") =>
       (par.type = TYPE_NONE /\ par.kind = TYPE_NONE)
  /\ (op = "Decoder_decode" /\ res = "malformed_input") =>
       (~dec.owned /\ Decoder_get_type(dec) = TYPE_NONE)
  /\ (op = "decode" /\ res = "malformed_input") =>
       HitSet_get_type_name(hs) = "none"

\* C8 as claimed: in every reachable state encode succeeds and the tag it
\* writes is one of 0..3; a Decoder that owns nothing writes tag 0 and owns
\* nothing afterwards.
C8_Claimed ==
  /\ op \in {"Params_encode", "Decoder_encode"} =>
       (res = "ok" /\ pbl[1] \in KnownTags)
  /\ (op = "Decoder_encode" /\ ~dec.owned) =>
       (res = "ok" /\ pbl[1] = TYPE_NONE)

\* C9 as claimed: decoding the encoding of a BloomParams with a rate in [0,1]
\* gives its target_size, its seed, and its rate within one millionth.
C9_Claimed ==
  (/\ op = "Params_decode"
   /\ res = "ok"
   /\ penc.own
   /\ penc.p.type = TYPE_BLOOM
   /\ Micros(penc.p.false_positive) <= 1000000) =>
    /\ par.target_size = penc.p.target_size
    /\ par.seed = penc.p.seed
    /\ Close(par.false_positive, penc.p.false_positive)

\* C10 as claimed: a configuration's get_type() is the tag of its concrete
\* variant, and the HitSet constructed from it owns that variant's strategy.
C10_Claimed ==
  /\ "par" \in live => par.type = par.kind
  /\ (op = "construct" /\ res = "ok") => hs.impl = par.kind

\* C11: a HitSet that owns no strategy (default-constructed, built from
\* NoneParams, or decoded from the buffer of such a HitSet) has the type name
\* "none", and an insert or contains call on it ends fatally and leaves the
\* HitSet, its counts and the set of constructed objects as they were.
C11_NoneRejects ==
  [][/\ ("hs" \in live /\ hs.impl = TYPE_NONE) =>
          HitSet_get_type_name(hs) = "none"
     /\ (op' = "HitSet" \/ (op' = "construct" /\ par = NoneParams)
          \/ (op' = "decode" /\ res' = "ok" /\ bl[1] = TYPE_NONE)) =>
          hs'.impl = TYPE_NONE /\ HitSet_get_type_name(hs') = "none"
     /\ (op' \in {"insert", "contains"} /\ hs.impl = TYPE_NONE) =>
          /\ res' = "fatal"
          /\ hs' = hs
          /\ inserted' = inserted
          /\ nIns' = nIns
          /\ live' = live]_vars

\* an insert on a HitSet decoded from the buffer of an empty one was rejected
C11_Witness ==
  /\ "hs" \in live
  /\ hs = NoImpl
  /\ enc.own
  /\ enc.hs = NoImpl
  /\ bl = <<TYPE_NONE>>
  /\ op = "insert"
  /\ res = "fatal"

\* C12: get_as_type<T>() on a configuration returns a pointer exactly when
\* the configuration's type tag is T's type_code, and then the configuration
\* is of T's concrete type (for the tag of HitSet::Params itself any
\* configuration is); the call always returns and leaves the configuration
\* as it was.
C12_TypedView ==
  [][op' = "get_as_type" =>
       /\ res' = "ok"
       /\ par' = par
       /\ view'.present <=> (view'.T = par.type)
       /\ (view'.present /\ view'.T # TYPE_NONE) => (par.kind = view'.T)]_vars

\* a Bloom view was granted on a Bloom configuration that had been encoded
C12_Witness ==
  /\ op = "get_as_type"
  /\ view.present
  /\ view.T = TYPE_BLOOM
  /\ par.type = TYPE_BLOOM
  /\ par.target_size = 2
  /\ penc.own
  /\ penc.p.type = TYPE_BLOOM

\* C13 as claimed: copying a configuration succeeds and gives a configuration
\* with the source's type tag and the source's concrete fields, and what is
\* done to the source afterwards leaves the copy as it was.
C13_Claimed ==
  [][/\ op' \in {"Params_copy", "Params_assign"} =>
          (res' = "ok" /\ cpy' = par /\ par' = par)
     /\ op' \in {"Params_decode", "Params_encode", "get_as_type"} =>
          cpy' = cpy]_vars

====
